---- MODULE Spec2Model ----
(***************************************************************************)
(* Model of the Game-of-Life board server of app.py: one shared Board      *)
(* object (rows, columns, board_state, previous_state, p_live), one        *)
(* threading.Lock, and request handlers run by concurrent threads.         *)
(*                                                                         *)
(* A grid is a sequence of rows, each a sequence of cells; Python's        *)
(* 0-based index i is position i+1 of the sequence.  Probabilities are     *)
(* counted in tenths (0.5 is 5, 1.0 is 10).  An optional value (Python's   *)
(* None or a value) is a sequence of length 0 or 1.                        *)
(*                                                                         *)
(* A thread's steps are the statements whose effect another thread can     *)
(* see: taking and releasing the lock, each store to a field of the Board, *)
(* each read of a field made outside the lock or by to_dict.  Statements   *)
(* inside the lock that only read rows, columns and board_state (written   *)
(* under the lock alone) or touch locals are joined to the store they      *)
(* lead to.  previous_state is read by no handler, so Board.update's two   *)
(* stores are one step.                                                    *)
(*                                                                         *)
(* Not modelled: UPDATE_COUNTER and the log lines (no handler reads them), *)
(* Board.zero, Board.is_static, Board.save_board and Board.set_board_state *)
(* (no route calls them), the static-file routes and start_game (they      *)
(* leave the Board alone).                                                 *)
(***************************************************************************)
EXTENDS Integers, Sequences, FiniteSets, TLC

\* ---------------------------------------------------------------- bounds
\* Number of request threads served at once.
NumThreads == 2
\* app.py sets MAX_ROWS = MAX_COLUMNS = 50; the model runs with small caps.
MAX_ROWS == 1
MAX_COLUMNS == 1
\* Largest grid the generation rule is enumerated on (specification SpecRule).
RuleRows == 3
RuleCols == 3

\* ------------------------------------------------------ program constants
ROWS == 8
COLUMNS == 8
\* P_LIVE = 0.5, in tenths.
P_LIVE == 5

Threads == 1..NumThreads

None == <<>>
Some(v) == <<v>>

Min(a, b) == IF a < b THEN a ELSE b
Max(a, b) == IF a > b THEN a ELSE b

\* ----------------------------------------------------------- pure helpers
\* [[v for _ in range(columns)] for _ in range(rows)]
Filled(v, r, c) == [i \in 1..r |-> [j \in 1..c |-> v]]

\* board_state[i][j] with Python's 0-based indices
Cell(b, i, j) == b[i + 1][j + 1]

\* the (i, j) pairs of the two nested range() loops of count_live_neighbors,
\* in iteration order
NeighborLoop(row, col) ==
    << <<row - 1, col - 1>>, <<row - 1, col>>, <<row - 1, col + 1>>,
       <<row,     col - 1>>, <<row,     col>>, <<row,     col + 1>>,
       <<row + 1, col - 1>>, <<row + 1, col>>, <<row + 1, col + 1>> >>

RECURSIVE CountFrom(_, _, _, _, _, _, _)
CountFrom(b, r, c, row, col, loop, k) ==
    IF k > Len(loop) THEN 0
    ELSE LET i == loop[k][1]
             j == loop[k][2]
             rest == CountFrom(b, r, c, row, col, loop, k + 1)
         IN  IF i = row /\ j = col THEN rest
             ELSE IF 0 <= i /\ i < r /\ 0 <= j /\ j < c
                  THEN Cell(b, i, j) + rest
                  ELSE rest

\* count_live_neighbors without its "continue": the centre is counted too
count_with_centre(b, r, c, row, col) ==
    CountFrom(b, r, c, row, col, NeighborLoop(row, col), 1) + Cell(b, row, col)

count_live_neighbors(b, r, c, row, col) ==
    CountFrom(b, r, c, row, col, NeighborLoop(row, col), 1)

update_cell(b, live_neighbors, row, col) ==
    LET current_state == Cell(b, row, col)
    IN  IF current_state = 1 /\ (live_neighbors < 2 \/ live_neighbors > 3) THEN 0
        ELSE IF current_state = 0 /\ live_neighbors = 3 THEN 1
        ELSE current_state

\* the new_board_state that Board.update builds from the current grid
new_board_state(b, r, c) ==
    [i \in 1..r |-> [j \in 1..c |->
        update_cell(b, count_live_neighbors(b, r, c, i - 1, j - 1), i - 1, j - 1)]]

\* a check that is satisfied by any cell at all, alive or not
check_for_life_any_cell(b, r, c) ==
    \E i \in 0..(r - 1) : \E j \in 0..(c - 1) : Cell(b, i, j) \in {0, 1}

check_for_life(b, r, c) ==
    \E i \in 0..(r - 1) : \E j \in 0..(c - 1) : Cell(b, i, j) = 1

\* the clamp without its lower end: min(1, p_live)
Clamp_upper_only(p) == Min(10, p)

\* max(0, min(1, p_live)), in tenths
Clamp(p) == Max(0, Min(10, p))

\* ------------------------------------------------------------------ state
VARIABLES
    rows, columns, board_state, previous_state, p_live,  \* the Board object
    lock,          \* threading.Lock: 0 when free, else the holding thread
    pc,            \* where each request thread stands in its handler
    p_arg,         \* randomize_board: its local p_live
    new_rows, new_columns,   \* change_size: its locals
    new_board,     \* customise: the grid it received
    new_state,     \* randomize: the cells drawn so far in the comprehension
    is_static,     \* update: its result
    resp,          \* the response body being built from the Board's fields
    status         \* the response's outcome

boardVars == <<rows, columns, board_state, previous_state, p_live>>
localVars == <<p_arg, new_rows, new_columns, new_board, new_state, is_static,
               resp, status>>
vars == <<rows, columns, board_state, previous_state, p_live, lock, pc,
          p_arg, new_rows, new_columns, new_board, new_state, is_static,
          resp, status>>

NoResp == [board |-> None, rows |-> None, columns |-> None, p_live |-> None]

\* Board.__init__ and the module-level lock, before any request
InitBoard ==
    /\ rows = Min(ROWS, MAX_ROWS)
    /\ columns = Min(COLUMNS, MAX_COLUMNS)
    /\ board_state = Filled(0, Min(ROWS, MAX_ROWS), Min(COLUMNS, MAX_COLUMNS))
    /\ previous_state = None
    /\ p_live = P_LIVE

InitThreads ==
    /\ lock = 0
    /\ pc = [t \in Threads |-> "idle"]
    /\ p_arg = [t \in Threads |-> None]
    /\ new_rows = [t \in Threads |-> None]
    /\ new_columns = [t \in Threads |-> None]
    /\ new_board = [t \in Threads |-> None]
    /\ new_state = [t \in Threads |-> None]
    /\ is_static = [t \in Threads |-> None]
    /\ resp = [t \in Threads |-> NoResp]
    /\ status = [t \in Threads |-> "none"]

Init == InitBoard /\ InitThreads

\* ------------------------------------------------------- shared step shapes
Goto(t, from, to) == pc[t] = from /\ pc' = [pc EXCEPT ![t] = to]

\* "with lock:" entered: blocks until the lock is free
Acquire(t, from, to) ==
    /\ Goto(t, from, to)
    /\ lock = 0
    /\ lock' = t

\* "with lock:" left, on a return or on an exception
Release(t, from, to) ==
    /\ Goto(t, from, to)
    /\ lock' = 0

\* the handler returns its response: the thread is free for the next request
Return(t, from) ==
    /\ Goto(t, from, "idle")
    /\ p_arg' = [p_arg EXCEPT ![t] = None]
    /\ new_rows' = [new_rows EXCEPT ![t] = None]
    /\ new_columns' = [new_columns EXCEPT ![t] = None]
    /\ new_board' = [new_board EXCEPT ![t] = None]
    /\ new_state' = [new_state EXCEPT ![t] = None]
    /\ is_static' = [is_static EXCEPT ![t] = None]
    /\ resp' = [resp EXCEPT ![t] = NoResp]
    /\ status' = [status EXCEPT ![t] = "none"]

\* Board.to_dict evaluates its four dictionary entries one after the other
ReadBoardState(t, from, to) ==
    /\ Goto(t, from, to)
    /\ resp' = [resp EXCEPT ![t].board = Some(board_state)]
    /\ UNCHANGED <<boardVars, lock, p_arg, new_rows, new_columns, new_board,
                   new_state, is_static, status>>

ReadRows(t, from, to) ==
    /\ Goto(t, from, to)
    /\ resp' = [resp EXCEPT ![t].rows = Some(rows)]
    /\ UNCHANGED <<boardVars, lock, p_arg, new_rows, new_columns, new_board,
                   new_state, is_static, status>>

ReadColumns(t, from, to) ==
    /\ Goto(t, from, to)
    /\ resp' = [resp EXCEPT ![t].columns = Some(columns)]
    /\ UNCHANGED <<boardVars, lock, p_arg, new_rows, new_columns, new_board,
                   new_state, is_static, status>>

ReadPLive(t, from, to) ==
    /\ Goto(t, from, to)
    /\ resp' = [resp EXCEPT ![t].p_live = Some(p_live)]
    /\ UNCHANGED <<boardVars, lock, p_arg, new_rows, new_columns, new_board,
                   new_state, is_static, status>>

to_dict(t, l) ==
    \/ ReadBoardState(t, l[1], l[2])
    \/ ReadRows(t, l[2], l[3])
    \/ ReadColumns(t, l[3], l[4])
    \/ ReadPLive(t, l[4], l[5])

\* a request arrives and the thread enters the route's handler
Request(t, first) ==
    /\ Goto(t, "idle", first)
    /\ UNCHANGED <<boardVars, lock, localVars>>

\* --------------------------------------------------- GET /api/board
\* get_board reading the board without taking the lock
get_board_nolock(t) ==
    /\ Goto(t, "gb_lock", "gb_board")
    /\ UNCHANGED <<boardVars, lock, localVars>>

get_board_lock(t) ==
    /\ Acquire(t, "gb_lock", "gb_board")
    /\ UNCHANGED <<boardVars, localVars>>

get_board_return(t) ==
    /\ Release(t, "gb_return", "idle")
    /\ Return(t, "gb_return")
    /\ UNCHANGED boardVars

get_board(t) ==
    \/ Request(t, "gb_lock")
    \/ get_board_lock(t)
    \/ to_dict(t, <<"gb_board", "gb_rows", "gb_columns", "gb_p_live", "gb_return">>)
    \/ get_board_return(t)

\* --------------------------------------------------- POST /api/update
\* the comparison made against the grid of the call before
static_check_stale(current, previous, new) == previous = Some(new)

\* line 57: is_static = self.board_state == new_board_state
static_check(current, previous, new) == current = new

update_lock(t) ==
    /\ Acquire(t, "up_lock", "up_body")
    /\ UNCHANGED <<boardVars, localVars>>

\* Board.update inside the lock: the new grid is built from the current one
\* in a buffer of its own, compared, and committed
update_body(t) ==
    /\ Goto(t, "up_body", "up_unlock")
    /\ LET new == new_board_state(board_state, rows, columns)
       IN  /\ is_static' = [is_static EXCEPT
                  ![t] = Some(static_check(board_state, previous_state, new))]
           /\ previous_state' = Some(board_state)
           /\ board_state' = new
    /\ UNCHANGED <<rows, columns, p_live, lock, p_arg, new_rows, new_columns,
                   new_board, new_state, resp, status>>

update_unlock(t) ==
    /\ Release(t, "up_unlock", "ub_board")
    /\ UNCHANGED <<boardVars, localVars>>

update(t) == update_lock(t) \/ update_body(t) \/ update_unlock(t)

\* update_board: jsonify({"board": board.board_state, "isStatic": is_static})
update_board_read(t) ==
    /\ ReadBoardState(t, "ub_board", "ub_return")

update_board_return(t) ==
    /\ Return(t, "ub_return")
    /\ UNCHANGED <<boardVars, lock>>

update_board(t) ==
    \/ Request(t, "up_lock")
    \/ update(t)
    \/ update_board_read(t)
    \/ update_board_return(t)

\* --------------------------------------------------- POST /api/clear, /api/fill
clear_lock(t) ==
    /\ Acquire(t, "cl_lock", "cl_body")
    /\ UNCHANGED <<boardVars, localVars>>

clear_body(t) ==
    /\ Goto(t, "cl_body", "cl_unlock")
    /\ board_state' = Filled(0, rows, columns)
    /\ UNCHANGED <<rows, columns, previous_state, p_live, lock, localVars>>

clear_unlock(t) ==
    /\ Release(t, "cl_unlock", "cl_board")
    /\ UNCHANGED <<boardVars, localVars>>

clear(t) == clear_lock(t) \/ clear_body(t) \/ clear_unlock(t)

clear_board_return(t) ==
    /\ Return(t, "cl_return")
    /\ UNCHANGED <<boardVars, lock>>

clear_board(t) ==
    \/ Request(t, "cl_lock")
    \/ clear(t)
    \/ to_dict(t, <<"cl_board", "cl_rows", "cl_columns", "cl_p_live", "cl_return">>)
    \/ clear_board_return(t)

fill_lock(t) ==
    /\ Acquire(t, "fl_lock", "fl_body")
    /\ UNCHANGED <<boardVars, localVars>>

fill_body(t) ==
    /\ Goto(t, "fl_body", "fl_unlock")
    /\ board_state' = Filled(1, rows, columns)
    /\ UNCHANGED <<rows, columns, previous_state, p_live, lock, localVars>>

fill_unlock(t) ==
    /\ Release(t, "fl_unlock", "fl_board")
    /\ UNCHANGED <<boardVars, localVars>>

fill(t) == fill_lock(t) \/ fill_body(t) \/ fill_unlock(t)

fill_board_return(t) ==
    /\ Return(t, "fl_return")
    /\ UNCHANGED <<boardVars, lock>>

fill_board(t) ==
    \/ Request(t, "fl_lock")
    \/ fill(t)
    \/ to_dict(t, <<"fl_board", "fl_rows", "fl_columns", "fl_p_live", "fl_return">>)
    \/ fill_board_return(t)

\* --------------------------------------------------- request values
\* A JSON field of a request body: <<"absent", 0>> (no such key),
\* <<"null", 0>>, <<"str", 0>> (a string that is no number), <<"num", n>>.
Absent == <<"absent", 0>>
Null == <<"null", 0>>
Str == <<"str", 0>>
Num(n) == <<"num", n>>

RowsInputs == {Absent, Null, Str} \cup
              {Num(n) : n \in {-1, 0, 1, MAX_ROWS, MAX_ROWS + 1}}
ColumnsInputs == {Absent, Null, Str} \cup
                 {Num(n) : n \in {-1, 0, 1, MAX_COLUMNS, MAX_COLUMNS + 1}}
PLiveInputs == {Absent, Null, Str} \cup {Num(n) : n \in {-5, 0, 5, 10, 15}}

\* random.random() lies in [0, 1): one low and one high draw, in tenths
RandomDraws == {0, 9}

\* int(x): what it raises ("no": nothing)
IntRaises(f) ==
    IF f[1] = "str" THEN "ValueError"
    ELSE IF f[1] = "null" THEN "TypeError"
    ELSE "no"

\* data.get(key, default)
GetOr(f, default) == IF f = Absent THEN Num(default) ELSE f

AllGrids(r, c) == [1..r -> [1..c -> {0, 1}]]

\* the grids a customize request may carry: every 0/1 grid up to the caps
\* (among them the empty list and rows of empty lists), one with a row too
\* many, one with a column too many, one with a short last row, and grids
\* holding a value that is neither 0 nor 1
BoardInputs ==
    {None}
    \cup {Some(g) : g \in UNION {AllGrids(r, c) :
                                   r \in 0..MAX_ROWS, c \in 0..MAX_COLUMNS}}
    \cup {Some(Filled(0, MAX_ROWS + 1, MAX_COLUMNS)),
          Some(Filled(1, MAX_ROWS, MAX_COLUMNS + 1)),
          Some([i \in 1..MAX_ROWS |->
                  [j \in 1..(IF i = MAX_ROWS THEN MAX_COLUMNS - 1
                                             ELSE MAX_COLUMNS) |-> 0]])}
    \cup {Some([Filled(v, r, c) EXCEPT ![r][c] = 2]) :
             v \in {0, 1}, r \in 1..MAX_ROWS, c \in 1..MAX_COLUMNS}

\* --------------------------------------------------- POST /api/change_size
\* the size check with "and" for "or"
size_rejected_both(nr, nc) == nr > MAX_ROWS /\ nc > MAX_COLUMNS

\* line 103: the size check of change_size
size_rejected(nr, nc) == nr > MAX_ROWS \/ nc > MAX_COLUMNS

change_size_lock(t) ==
    /\ Acquire(t, "cs_lock", "cs_body")
    /\ UNCHANGED <<boardVars, localVars>>

\* lines 96-104: the request is parsed and checked
change_size_parse(t) ==
    /\ pc[t] = "cs_body"
    /\ \E fr \in RowsInputs, fc \in ColumnsInputs :
         LET r == GetOr(fr, rows)
             c == GetOr(fc, columns)
             raised == IF IntRaises(r) # "no" THEN IntRaises(r) ELSE IntRaises(c)
         IN  /\ new_rows' = [new_rows EXCEPT
                    ![t] = IF IntRaises(r) = "no" THEN Some(r[2]) ELSE None]
             /\ new_columns' = [new_columns EXCEPT
                    ![t] = IF raised = "no" THEN Some(c[2]) ELSE None]
             /\ IF raised = "ValueError"
                THEN /\ status' = [status EXCEPT ![t] = "400 integers"]
                     /\ pc' = [pc EXCEPT ![t] = "cs_unlock"]
                ELSE IF raised = "TypeError"
                THEN /\ status' = [status EXCEPT ![t] = "500"]
                     /\ pc' = [pc EXCEPT ![t] = "cs_unlock"]
                ELSE IF size_rejected(r[2], c[2])
                THEN /\ status' = [status EXCEPT ![t] = "400 size"]
                     /\ pc' = [pc EXCEPT ![t] = "cs_unlock"]
                ELSE /\ status' = status
                     /\ pc' = [pc EXCEPT ![t] = "cs_rows"]
    /\ UNCHANGED <<boardVars, lock, p_arg, new_board, new_state, is_static, resp>>

\* line 106: self.rows = new_rows
change_size_rows(t) ==
    /\ Goto(t, "cs_rows", "cs_columns")
    /\ rows' = new_rows[t][1]
    /\ UNCHANGED <<columns, board_state, previous_state, p_live, lock, localVars>>

\* line 107: self.columns = new_columns
change_size_columns(t) ==
    /\ Goto(t, "cs_columns", "cs_board")
    /\ columns' = new_columns[t][1]
    /\ UNCHANGED <<rows, board_state, previous_state, p_live, lock, localVars>>

\* lines 108-114: the grid is reallocated and the response built
change_size_board(t) ==
    /\ Goto(t, "cs_board", "cs_unlock")
    /\ board_state' = Filled(0, rows, columns)
    /\ status' = [status EXCEPT ![t] = "200"]
    /\ UNCHANGED <<rows, columns, previous_state, p_live, lock, p_arg, new_rows,
                   new_columns, new_board, new_state, is_static, resp>>

\* an error return that leaves without releasing the lock
change_size_unlock_leak(t) ==
    /\ Return(t, "cs_unlock")
    /\ lock' = IF status[t] = "200" THEN 0 ELSE lock
    /\ UNCHANGED boardVars

change_size_unlock(t) ==
    /\ Release(t, "cs_unlock", "idle")
    /\ Return(t, "cs_unlock")
    /\ UNCHANGED boardVars

change_size(t) ==
    \/ change_size_lock(t)
    \/ change_size_parse(t)
    \/ change_size_rows(t)
    \/ change_size_columns(t)
    \/ change_size_board(t)
    \/ change_size_unlock(t)

change_board_size(t) == Request(t, "cs_lock") \/ change_size(t)

\* --------------------------------------------------- POST /api/customize
\* line 80: the shape check of customise
shape_rejected(nb, r, c) ==
    \/ nb = None
    \/ nb[1] = <<>>
    \/ Len(nb[1]) # r
    \/ \E i \in 1..Len(nb[1]) : Len(nb[1][i]) # c

\* lines 84-87: some row holds a cell that is not in [0, 1]
cell_rejected(nb) ==
    \E i \in 1..Len(nb[1]) : \E j \in 1..Len(nb[1][i]) : nb[1][i][j] \notin {0, 1}

customise_lock(t) ==
    /\ Acquire(t, "cu_lock", "cu_body")
    /\ UNCHANGED <<boardVars, localVars>>

\* the answer of customise to the grid nb on an r x c board
customise_status(nb, r, c) ==
    IF shape_rejected(nb, r, c) THEN "400 shape"
    ELSE IF cell_rejected(nb) THEN "400 cell"
    ELSE "200"

\* the grid stored as soon as its shape is accepted, before the cells are checked
customise_store_early(nb, r, c, current) ==
    IF shape_rejected(nb, r, c) THEN current ELSE nb[1]

\* line 89: self.board_state = new_board, reached only past both checks
customise_store(nb, r, c, current) ==
    IF customise_status(nb, r, c) = "200" THEN nb[1] ELSE current

\* customise as the variant that also forgets the previous generation
customise_body_discards(t) ==
    /\ Goto(t, "cu_body", "cu_unlock")
    /\ \E nb \in BoardInputs :
         /\ new_board' = [new_board EXCEPT ![t] = nb]
         /\ status' = [status EXCEPT ![t] = customise_status(nb, rows, columns)]
         /\ board_state' = customise_store(nb, rows, columns, board_state)
         /\ previous_state' =
              IF customise_status(nb, rows, columns) = "200" THEN None
              ELSE previous_state
    /\ UNCHANGED <<rows, columns, p_live, lock, p_arg, new_rows,
                   new_columns, new_state, is_static, resp>>

customise_body(t) ==
    /\ Goto(t, "cu_body", "cu_unlock")
    /\ \E nb \in BoardInputs :
         /\ new_board' = [new_board EXCEPT ![t] = nb]
         /\ status' = [status EXCEPT ![t] = customise_status(nb, rows, columns)]
         /\ board_state' = customise_store(nb, rows, columns, board_state)
    /\ UNCHANGED <<rows, columns, previous_state, p_live, lock, p_arg, new_rows,
                   new_columns, new_state, is_static, resp>>

customise_unlock(t) ==
    /\ Release(t, "cu_unlock", "idle")
    /\ Return(t, "cu_unlock")
    /\ UNCHANGED boardVars

customise(t) == customise_lock(t) \/ customise_body(t) \/ customise_unlock(t)

customize_board(t) == Request(t, "cu_lock") \/ customise(t)

\* --------------------------------------------------- POST /api/set_p_live
\* Board.set_p_live: one store, made without the lock
Board_set_p_live(p) == p_live' = Clamp(p)

\* the route: a missing or null p_live is answered 400, float() of a string
\* that is no number raises ValueError, answered 400
set_p_live_body(t) ==
    /\ Goto(t, "sp_body", "sp_return")
    /\ \E f \in PLiveInputs :
         /\ p_arg' = [p_arg EXCEPT ![t] = Some(f)]
         /\ IF f \in {Absent, Null}
            THEN /\ status' = [status EXCEPT ![t] = "400 missing"]
                 /\ p_live' = p_live
            ELSE IF f = Str
            THEN /\ status' = [status EXCEPT ![t] = "400 value"]
                 /\ p_live' = p_live
            ELSE /\ status' = [status EXCEPT ![t] = "200"]
                 /\ Board_set_p_live(f[2])
    /\ UNCHANGED <<rows, columns, board_state, previous_state, lock,
                   new_rows, new_columns, new_board, new_state, is_static, resp>>

set_p_live_return(t) ==
    /\ Return(t, "sp_return")
    /\ UNCHANGED <<boardVars, lock>>

set_p_live(t) ==
    \/ Request(t, "sp_body")
    \/ set_p_live_body(t)
    \/ set_p_live_return(t)

\* --------------------------------------------------- POST /api/randomize
\* line 178: p_live = request.json.get('p_live', board.p_live)
randomize_board_args(t) ==
    /\ Goto(t, "rb_args", "rb_set")
    /\ \E f \in PLiveInputs : p_arg' = [p_arg EXCEPT ![t] = Some(GetOr(f, p_live))]
    /\ UNCHANGED <<boardVars, lock, new_rows, new_columns, new_board, new_state,
                   is_static, resp, status>>

\* line 179: board.set_p_live(p_live); min(1, x) raises TypeError on a string
\* or on None, which the route answers 500
randomize_board_set(t) ==
    /\ pc[t] = "rb_set"
    /\ IF p_arg[t][1][1] = "num"
       THEN /\ Board_set_p_live(p_arg[t][1][2])
            /\ pc' = [pc EXCEPT ![t] = "rz_lock"]
            /\ status' = status
       ELSE /\ p_live' = p_live
            /\ pc' = [pc EXCEPT ![t] = "rb_return"]
            /\ status' = [status EXCEPT ![t] = "500"]
    /\ UNCHANGED <<rows, columns, board_state, previous_state, lock, p_arg,
                   new_rows, new_columns, new_board, new_state, is_static, resp>>

randomize_lock(t) ==
    /\ Acquire(t, "rz_lock", "rz_draw")
    /\ new_state' = [new_state EXCEPT ![t] = Some(<<>>)]
    /\ UNCHANGED <<boardVars, p_arg, new_rows, new_columns, new_board,
                   is_static, resp, status>>

\* the cells one pass of the comprehension of line 42 draws
NumCells(r, c) == IF r > 0 /\ c > 0 THEN r * c ELSE 0

\* the cells drawn, row after row, as the grid the comprehension returns
AsGrid(cells, r, c) == [i \in 1..r |-> [j \in 1..c |-> cells[(i - 1) * c + j]]]

\* line 42, one cell: 1 if random.random() < self.p_live else 0
randomize_draw(t) ==
    /\ pc[t] = "rz_draw"
    /\ Len(new_state[t][1]) < NumCells(rows, columns)
    /\ \E rnd \in RandomDraws :
         new_state' = [new_state EXCEPT
             ![t] = Some(Append(new_state[t][1], IF rnd < p_live THEN 1 ELSE 0))]
    /\ UNCHANGED <<boardVars, lock, pc, p_arg, new_rows, new_columns, new_board,
                   is_static, resp, status>>

\* lines 42-44: the finished grid is stored, and the loop ends if it has life
randomize_store(t) ==
    /\ pc[t] = "rz_draw"
    /\ Len(new_state[t][1]) = NumCells(rows, columns)
    /\ board_state' = AsGrid(new_state[t][1], rows, columns)
    /\ IF check_for_life(board_state', rows, columns)
       THEN /\ pc' = [pc EXCEPT ![t] = "rz_unlock"]
            /\ new_state' = [new_state EXCEPT ![t] = None]
       ELSE /\ pc' = pc
            /\ new_state' = [new_state EXCEPT ![t] = Some(<<>>)]
    /\ UNCHANGED <<rows, columns, previous_state, p_live, lock, p_arg, new_rows,
                   new_columns, new_board, is_static, resp, status>>

randomize_unlock(t) ==
    /\ Release(t, "rz_unlock", "rb_board")
    /\ UNCHANGED <<boardVars, localVars>>

randomize(t) ==
    \/ randomize_lock(t)
    \/ randomize_draw(t)
    \/ randomize_store(t)
    \/ randomize_unlock(t)

randomize_board_return(t) ==
    /\ Return(t, "rb_return")
    /\ UNCHANGED <<boardVars, lock>>

randomize_board(t) ==
    \/ Request(t, "rb_args")
    \/ randomize_board_args(t)
    \/ randomize_board_set(t)
    \/ randomize(t)
    \/ to_dict(t, <<"rb_board", "rb_rows", "rb_columns", "rb_p_live", "rb_return">>)
    \/ randomize_board_return(t)

\* --------------------------------------------------- the server
\* one request thread serving whatever request arrives
Serve(t) ==
    \/ get_board(t)
    \/ randomize_board(t)
    \/ update_board(t)
    \/ change_board_size(t)
    \/ customize_board(t)
    \/ clear_board(t)
    \/ fill_board(t)
    \/ set_p_live(t)

\* every thread serves any request.  SpecSeq and SpecReader below run the
\* same handlers in arrangements small enough to enumerate: their behaviours
\* are behaviours of Spec.
Next == \E t \in Threads : Serve(t)

Spec == Init /\ [][Next]_vars

\* requests served one at a time, by one thread
NextSeq == Serve(1)

SpecSeq == Init /\ [][NextSeq]_vars

\* thread 1 serves GET /api/board requests while thread 2 serves any request
NextReader == get_board(1) \/ Serve(2)

SpecReader == Init /\ [][NextReader]_vars

\* the generation step alone, started from every board up to RuleRows x
\* RuleCols (each is a state customize requests lead to under caps that large)
InitRule ==
    /\ rows \in 1..RuleRows
    /\ columns \in 1..RuleCols
    /\ board_state \in AllGrids(rows, columns)
    /\ previous_state = None
    /\ p_live = P_LIVE
    /\ InitThreads

NextRule == update_board(1)

SpecRule == InitRule /\ [][NextRule]_vars

\* a randomize request on thread 1 beside set_p_live requests on thread 2,
\* on a board of more than one cell (a state change_size leads to under caps
\* that large)
RaceRows == 1

RaceCols == 2

InitRace ==
    /\ rows = RaceRows
    /\ columns = RaceCols
    /\ board_state = Filled(0, rows, columns)
    /\ previous_state = None
    /\ p_live = P_LIVE
    /\ InitThreads

NextRandomizeRace == randomize_board(1) \/ set_p_live(2)

SpecRandomizeRace == InitRace /\ [][NextRandomizeRace]_vars

\* update requests on thread 1 beside clear and fill requests on thread 2
NextUpdateRace == update_board(1) \/ clear_board(2) \/ fill_board(2)

SpecUpdateRace == Init /\ [][NextUpdateRace]_vars

\* clear, fill and randomize requests on thread 1 beside change_size
\* requests on thread 2
NextResponseRace ==
    \/ clear_board(1)
    \/ fill_board(1)
    \/ randomize_board(1)
    \/ change_board_size(2)

SpecResponseRace == Init /\ [][NextResponseRace]_vars

\* the six locked operations requested on thread 1 beside randomize requests
\* on thread 2, under fair scheduling: a thread inside a handler keeps
\* taking steps, a thread waiting for the lock gets it if the lock is free
\* again and again, and a sample that can come out ALIVE does so sooner or
\* later
Handler(t) == Serve(t) /\ pc[t] # "idle"

LockStep(t) ==
    \/ get_board_lock(t)
    \/ update_lock(t)
    \/ clear_lock(t)
    \/ fill_lock(t)
    \/ change_size_lock(t)
    \/ customise_lock(t)
    \/ randomize_lock(t)

\* line 42: random.random() < self.p_live comes out true
randomize_draw_alive(t) ==
    /\ randomize_draw(t)
    /\ new_state'[t][1][Len(new_state'[t][1])] = 1

NextFair ==
    \/ get_board(1)
    \/ update_board(1)
    \/ clear_board(1)
    \/ fill_board(1)
    \/ change_board_size(1)
    \/ customize_board(1)
    \/ randomize_board(2)

SpecFair ==
    /\ Init
    /\ [][NextFair]_vars
    /\ \A t \in Threads :
          /\ WF_vars(NextFair /\ Handler(t))
          /\ SF_vars(NextFair /\ LockStep(t))
          /\ SF_vars(NextFair /\ randomize_draw_alive(t))

\* ================================================================= claims

\* the program points between taking the lock and releasing it
InLock ==
    {"gb_board", "gb_rows", "gb_columns", "gb_p_live", "gb_return",
     "rz_draw", "rz_unlock", "up_body", "up_unlock",
     "cs_body", "cs_rows", "cs_columns", "cs_board", "cs_unlock",
     "cu_body", "cu_unlock", "cl_body", "cl_unlock", "fl_body", "fl_unlock"}

\* thread t's step is the body of Board.update
UpdateStep(t) == pc[t] = "up_body" /\ pc'[t] = "up_unlock"

\* the rule of Life stated on sets: the ALIVE cells among the cells of the
\* grid at distance 1 of (i, j)
AliveAround(g, r, c, i, j) ==
    {q \in (1..r) \X (1..c) :
        /\ q # <<i, j>>
        /\ q[1] - i \in {-1, 0, 1}
        /\ q[2] - j \in {-1, 0, 1}
        /\ g[q[1]][q[2]] = 1}

LifeRule(g, r, c) ==
    [i \in 1..r |-> [j \in 1..c |->
        LET n == Cardinality(AliveAround(g, r, c, i, j))
        IN  IF g[i][j] = 1
            THEN (IF n \in {2, 3} THEN 1 ELSE 0)
            ELSE (IF n = 3 THEN 1 ELSE 0)]]

AliveCells(g) ==
    UNION {{<<i, j>> : j \in {k \in 1..Len(g[i]) : g[i][k] = 1}} : i \in 1..Len(g)}

AllDead(g) == AliveCells(g) = {}

\* C1: Advance leaves every cell at the value the Life rule gives it on the
\* grid as it was before the call (in-bounds neighbours only, no wraparound,
\* centre excluded: ALIVE stays ALIVE iff 2 or 3 neighbours are ALIVE, DEAD
\* becomes ALIVE iff exactly 3 are), so the new grid is a function of the old
\* grid alone.
C1_AdvanceAppliesLifeRule ==
    [][\A t \in Threads :
          UpdateStep(t) => board_state' = LifeRule(board_state, rows, columns)]_vars

\* an Advance has run on a full-size grid where a cell with more than three
\* ALIVE neighbours died, a cell was born and a cell survived
C1_Witness ==
    /\ pc[1] = "up_unlock"
    /\ rows = RuleRows /\ columns = RuleCols
    /\ previous_state # None
    /\ LET old == previous_state[1]
           cells == (1..rows) \X (1..columns)
       IN  /\ \E q \in cells :
                 /\ old[q[1]][q[2]] = 1 /\ board_state[q[1]][q[2]] = 0
                 /\ Cardinality(AliveAround(old, rows, columns, q[1], q[2])) > 3
           /\ \E q \in cells : old[q[1]][q[2]] = 0 /\ board_state[q[1]][q[2]] = 1
           /\ \E q \in cells : old[q[1]][q[2]] = 1 /\ board_state[q[1]][q[2]] = 1

\* C2: Advance sets previousCells to the grid it found, and returns true
\* exactly when the grid it commits equals the grid it found; an all-DEAD
\* board stays all-DEAD with true, a board with a single ALIVE cell becomes
\* all-DEAD with false.
C2_AdvanceRecordsAndCompares ==
    [][\A t \in Threads :
          UpdateStep(t) =>
            /\ previous_state' = Some(board_state)
            /\ is_static'[t] = Some(board_state' = board_state)
            /\ AllDead(board_state) =>
                  AllDead(board_state') /\ is_static'[t] = Some(TRUE)
            /\ Cardinality(AliveCells(board_state)) = 1 =>
                  AllDead(board_state') /\ is_static'[t] = Some(FALSE)]_vars

\* an Advance has turned a board with one ALIVE cell into an all-DEAD board
\* and reported false
C2_Witness ==
    /\ pc[1] = "up_unlock"
    /\ previous_state # None
    /\ Cardinality(AliveCells(previous_state[1])) = 1
    /\ AllDead(board_state)
    /\ is_static[1] = Some(FALSE)

\* the Board as a snapshot reports it
BoardNow ==
    [board |-> Some(board_state), rows |-> Some(rows),
     columns |-> Some(columns), p_live |-> Some(p_live)]

\* C3: a Snapshot (get_board) never observes torn state: when it has read its
\* last field, the four values it holds are the Board's fields as they stand
\* at that instant, and no Advance, Resize, SetCells, Reset, Fill or Randomize
\* of another thread is between its first and its last statement.
C3_SnapshotIsNotTorn ==
    [][\A t \in Threads :
          (pc[t] = "gb_p_live" /\ pc'[t] = "gb_return") =>
            /\ resp'[t] = BoardNow
            /\ \A u \in Threads \ {t} : pc[u] \notin InLock]_vars

\* a snapshot is complete, taken after an Advance and a Resize changed the
\* board, while the other thread waits for the lock to resize again
C3_Witness ==
    /\ pc[1] = "gb_return"
    /\ pc[2] = "cs_lock"
    /\ previous_state # None
    /\ resp[1].rows = Some(0)
    /\ resp[1].board = Some(<<>>)

\* the steps of the engine's operations that read or write a field of the
\* Board: the statements inside "with lock", and the store of Board.set_p_live
\* (made by the set_p_live route and by the randomize route)
EngineAccess(t) ==
    \/ pc[t] \in InLock /\ pc'[t] # pc[t]
    \/ pc[t] = "rz_draw" /\ new_state'[t] # new_state[t]
    \/ pc[t] = "sp_body" /\ status'[t] = "200"
    \/ pc[t] = "rb_set" /\ pc'[t] = "rz_lock"

\* C4: no engine operation reads or writes a field of the Board while another
\* thread holds the lock, the store of liveProbability by SetLiveProbability
\* included.
C4_NoAccessWhileAnotherHoldsLock ==
    [][\A t \in Threads : EngineAccess(t) => lock \in {0, t}]_vars

\* C5: the lock is released on every exit path: it is held only by a thread
\* that stands between "with lock" and its exit, so with no operation in
\* progress the lock is free.
C5_LockHeldOnlyInsideOperation ==
    /\ lock # 0 => pc[lock] \in InLock
    /\ \A t \in Threads : pc[t] \in InLock => lock = t

\* a Resize is about to return a validation error while a GET /api/board
\* request waits for the lock
C5_Witness ==
    /\ pc[2] = "cs_unlock"
    /\ status[2] \in {"400 integers", "400 size"}
    /\ lock = 2
    /\ pc[1] = "gb_lock"

\* thread t holds a parsed Resize request
Parsed(t) == new_rows[t] # None /\ new_columns[t] # None

\* C6: Resize with newRows <= 0 or newColumns <= 0 fails with a 400 error and
\* writes nothing, so rows and columns are positive in every reachable state.
C6_ResizeRejectsNonPositive ==
    /\ \A t \in Threads :
          (Parsed(t) /\ (new_rows[t][1] <= 0 \/ new_columns[t][1] <= 0)) =>
              pc[t] = "cs_unlock" /\ status[t] \in {"400 integers", "400 size"}
    /\ rows > 0
    /\ columns > 0

\* thread t's step is the parse-and-check of a Resize that asks for more than
\* a maximum
TooLargeStep(t) ==
    /\ pc[t] = "cs_body" /\ pc'[t] # "cs_body"
    /\ Parsed(t)'
    /\ (new_rows'[t][1] > MAX_ROWS \/ new_columns'[t][1] > MAX_COLUMNS)

\* C7: rows <= MAX_ROWS and columns <= MAX_COLUMNS in every reachable state:
\* construction caps them, and a Resize asking for more than either maximum is
\* answered with the size error and changes nothing of the Board.
C7_DimensionsCapped ==
    /\ rows <= MAX_ROWS /\ columns <= MAX_COLUMNS
    /\ [][/\ rows' <= MAX_ROWS /\ columns' <= MAX_COLUMNS
          /\ \A t \in Threads :
                TooLargeStep(t) =>
                    /\ status'[t] = "400 size"
                    /\ pc'[t] = "cs_unlock"
                    /\ UNCHANGED boardVars]_vars

\* a Resize asking for one row too many is about to return its size error
C7_Witness ==
    /\ pc[1] = "cs_unlock"
    /\ status[1] = "400 size"
    /\ new_rows[1] = Some(MAX_ROWS + 1)
    /\ rows <= MAX_ROWS

\* the grid has `rows` rows of `columns` entries
ShapeIsRowsByColumns ==
    /\ Len(board_state) = rows
    /\ \A i \in 1..Len(board_state) : Len(board_state[i]) = columns

\* C8: whenever no operation is in progress, the grid has exactly `rows` rows
\* and every row has exactly `columns` entries.
C8_GridHasBoardDimensions == lock = 0 => ShapeIsRowsByColumns

ErrorStatus == {"400 integers", "400 size", "400 shape", "400 cell"}

\* C9: a Resize or SetCells that ends in a validation error has written no
\* field of the Board: none of its steps changes rows, columns, cells,
\* previousCells or liveProbability.
C9_ValidationErrorWritesNothing ==
    [][\A t \in Threads :
          (/\ pc[t] \in {"cs_body", "cs_unlock", "cu_body", "cu_unlock"}
           /\ pc'[t] # pc[t]
           /\ (status[t] \in ErrorStatus \/ status'[t] \in ErrorStatus))
          => UNCHANGED boardVars]_vars

\* a SetCells of the right shape holding a value that is neither 0 nor 1 is
\* about to return its error, after an Advance
C9_Witness ==
    /\ pc[1] = "cu_unlock"
    /\ status[1] = "400 cell"
    /\ previous_state # None

\* the grid of thread t's SetCells has the shape of the board
ShapeMatches(t) ==
    /\ new_board[t] # None
    /\ Len(new_board[t][1]) = rows
    /\ \A i \in 1..Len(new_board[t][1]) : Len(new_board[t][1][i]) = columns

\* C10: SetCells fails with the shape error when the grid's shape differs from
\* the board's, fails with the cell error when the shape matches and an entry
\* is neither 0 nor 1, and succeeds (storing the grid) for every grid of the
\* board's shape whose entries are all 0 or 1.
C10_SetCellsValidates ==
    \A t \in Threads :
        pc[t] = "cu_unlock" =>
            IF ~ShapeMatches(t) THEN status[t] = "400 shape"
            ELSE IF cell_rejected(new_board[t]) THEN status[t] = "400 cell"
            ELSE status[t] = "200" /\ board_state = new_board[t][1]

\* a customise call that passed both checks (lines 84-90)
CustomiseStored(t) ==
    /\ pc[t] = "cu_body"
    /\ pc'[t] = "cu_unlock"
    /\ status'[t] = "200"

\* C11: a customise call that succeeds makes the stored grid equal, cell
\* for cell, to the grid it was given and leaves the previous generation,
\* rows, columns and p_live as they were; an update computes the next
\* generation and is_static from the stored grid alone, whatever the
\* previous generation was.
C11_SetCellsStoresGridOnly ==
    [][\A t \in Threads :
          /\ CustomiseStored(t) =>
                /\ Len(board_state') = Len(new_board'[t][1])
                /\ \A i \in 1..Len(board_state') :
                      /\ Len(board_state'[i]) = Len(new_board'[t][1][i])
                      /\ \A j \in 1..Len(board_state'[i]) :
                            board_state'[i][j] = new_board'[t][1][i][j]
                /\ UNCHANGED <<previous_state, rows, columns, p_live>>
          /\ UpdateStep(t) =>
                /\ board_state' = LifeRule(board_state, rows, columns)
                /\ is_static'[t]
                     = Some(LifeRule(board_state, rows, columns) = board_state)
      ]_vars

\* a customise call has stored a grid with a live cell over a board that
\* had a generation behind it
C11_Witness ==
    /\ pc[1] = "cu_unlock"
    /\ status[1] = "200"
    /\ previous_state # None
    /\ board_state = new_board[1][1]
    /\ ~AllDead(board_state)

\* the engine steps of clear, fill and of a change_size that passed its checks
ClearStep(t) == pc[t] = "cl_body" /\ pc'[t] = "cl_unlock"

FillStep(t) == pc[t] = "fl_body" /\ pc'[t] = "fl_unlock"

ResizeStep(t) == pc[t] = "cs_board" /\ pc'[t] = "cs_unlock"

\* C12: immediately after a clear, and immediately after a change_size that
\* succeeds, there is no previous generation.
C12_ResetAndResizeDiscardPrevious ==
    \A t \in Threads :
        (pc[t] = "cl_unlock" \/ (pc[t] = "cs_unlock" /\ status[t] = "200"))
            => previous_state = None

\* g has exactly r rows of exactly c entries, each of them v
IsGridOf(g, r, c, v) ==
    /\ Len(g) = r
    /\ \A i \in 1..Len(g) :
          /\ Len(g[i]) = c
          /\ \A j \in 1..Len(g[i]) : g[i][j] = v

\* C13: clear leaves every cell DEAD and fill every cell ALIVE in a grid of
\* the unchanged rows x columns; a change_size(r, c) that succeeds leaves
\* rows = r, columns = c and an r x c grid of DEAD cells; none of the three
\* changes p_live.
C13_ResetFillResizeResults ==
    [][\A t \in Threads :
          /\ ClearStep(t) =>
                /\ UNCHANGED <<rows, columns, p_live>>
                /\ IsGridOf(board_state', rows, columns, 0)
          /\ FillStep(t) =>
                /\ UNCHANGED <<rows, columns, p_live>>
                /\ IsGridOf(board_state', rows, columns, 1)
          /\ ResizeStep(t) =>
                /\ rows' = new_rows[t][1]
                /\ columns' = new_columns[t][1]
                /\ IsGridOf(board_state', rows', columns', 0)
          /\ pc[t] \in {"cs_body", "cs_rows", "cs_columns", "cs_board"} =>
                p_live' = p_live
      ]_vars

\* C14: whenever randomize leaves its loop, the grid it stored has at least
\* one ALIVE cell and has `rows` rows of `columns` entries.
C14_RandomizeCommitsLife ==
    \A t \in Threads :
        pc[t] = "rz_unlock" =>
            /\ AliveCells(board_state) # {}
            /\ ShapeIsRowsByColumns

\* randomize is about to return a grid it drew with p_live = 0.5
C14_Witness ==
    /\ pc[1] = "rz_unlock"
    /\ p_live = P_LIVE
    /\ AliveCells(board_state) # {}

\* p brought into [0, 1], in tenths
ClampedTo01(p) == IF p < 0 THEN 0 ELSE IF p > 10 THEN 10 ELSE p

\* the two places Board.set_p_live is called from, with a number
SetPLiveStep(t) ==
    \/ pc[t] = "rb_set" /\ pc'[t] = "rz_lock"
    \/ pc[t] = "sp_body" /\ pc'[t] = "sp_return" /\ status'[t] = "200"

\* C16: set_p_live(p) stores p clamped to [0, 1] and changes nothing else
\* of the board; p_live starts at 0.5 and lies in [0, 1] in every state.
C16_LiveProbabilityClamped ==
    /\ p_live = P_LIVE
    /\ [][/\ 0 <= p_live' /\ p_live' <= 10
          /\ \A t \in Threads :
                SetPLiveStep(t) =>
                    /\ p_live' = ClampedTo01(p_arg'[t][1][2])
                    /\ UNCHANGED <<rows, columns, board_state, previous_state>>
      ]_vars

\* set_p_live was given 1.5 and 1 is stored
C16_Witness ==
    /\ pc[1] = "sp_return"
    /\ p_arg[1] = Some(Num(15))
    /\ p_live = 10

\* C15: a randomize request carrying p_live = 1.0 leaves every cell of the
\* grid ALIVE when its randomize completes, also while set_p_live requests
\* with a smaller value are served by another thread.
C15_RandomizeOneIsAllAlive ==
    \A t \in Threads :
        (pc[t] = "rz_unlock" /\ p_arg[t] = Some(Num(10)))
            => IsGridOf(board_state, rows, columns, 1)

\* C19: the `board` of an update response is the grid this request's update
\* stored, so it equals the grid before the request when isStatic is true.
\* (Where only thread 1 serves update and no request resizes, the grid that
\* update found is previous_state and the grid it stored is the next
\* generation of it.)
C19_UpdateResponseIsCommittedGrid ==
    \A t \in Threads :
        pc[t] = "ub_return" =>
            /\ resp[t].board = Some(LifeRule(previous_state[1], rows, columns))
            /\ (is_static[t] = Some(TRUE) => resp[t].board = previous_state)

\* g has r rows of c entries
HasShape(g, r, c) ==
    /\ Len(g) = r
    /\ \A i \in 1..Len(g) : Len(g[i]) = c

\* C20: the bodies of the clear, fill and randomize responses have a `board`
\* of `rows` rows of `columns` entries, which is all DEAD for clear, all
\* ALIVE for fill and has an ALIVE cell for randomize, whatever other
\* requests (such as change_size) are served meanwhile.
C20_ResponseReflectsOwnOperation ==
    \A t \in Threads :
        /\ pc[t] = "cl_return" =>
              /\ HasShape(resp[t].board[1], resp[t].rows[1], resp[t].columns[1])
              /\ AllDead(resp[t].board[1])
        /\ pc[t] = "fl_return" =>
              /\ HasShape(resp[t].board[1], resp[t].rows[1], resp[t].columns[1])
              /\ IsGridOf(resp[t].board[1], resp[t].rows[1], resp[t].columns[1], 1)
        /\ (pc[t] = "rb_return" /\ status[t] # "500") =>
              /\ HasShape(resp[t].board[1], resp[t].rows[1], resp[t].columns[1])
              /\ AliveCells(resp[t].board[1]) # {}

\* the thread has asked for the lock of one of the six operations
WaitsForLock(t) ==
    pc[t] \in {"gb_lock", "cl_lock", "fl_lock", "up_lock", "cs_lock", "cu_lock"}

\* C17: under fair scheduling every get_board, clear, fill, update,
\* change_size and customise that was invoked acquires the lock and returns,
\* whatever randomize requests are served meanwhile.
C17_LockedOperationsReturn ==
    \A t \in Threads : WaitsForLock(t) ~> (pc[t] = "idle")

\* the grids one pass of randomize's loop can draw on an r x c board
Samples(r, c) == AllGrids(Max(0, r), Max(0, c))

\* C18: a randomize invoked with p_live > 0 ends its loop, under fair
\* sampling, in every reachable state of the board, and only p_live = 0
\* makes it loop forever.  Stated so that a finite run refutes it: whenever
\* randomize is in its loop with p_live > 0, one of the grids a pass can
\* draw has an ALIVE cell (if none has, no sampling ends the loop).
C18_RandomizeTerminates ==
    \A t \in Threads :
        (pc[t] = "rz_draw" /\ p_live > 0)
            => \E g \in Samples(rows, columns) : AliveCells(g) # {}

====
